---- MODULE Spec2Model ----
(***************************************************************************)
(* A model of image_optimizer.py: the per-file pipeline (process_one,      *)
(* save_image), the thread-pool orchestration and the report/summary tail  *)
(* of main.                                                                *)
(*                                                                         *)
(* Conventions.                                                            *)
(*  - A Python Optional[int] is a sequence: <<>> is None, <<n>> is n.      *)
(*  - A file name is a record [stem, ext] (what os.path.splitext returns), *)
(*    a path adds the directory: [dir, stem, ext].  "" is EmptyPath.       *)
(*  - A float that the code computes by one division is kept exact, as the *)
(*    pair <<numerator, denominator>>.                                     *)
(*  - The codec library (Pillow) is outside the repository.  Its calls are *)
(*    modelled by their documented behaviour at the line that calls them.  *)
(***************************************************************************)
EXTENDS Integers, Sequences, FiniteSets, TLC

\* ------------------------------------------------------------------ bounds
MaxFiles == 2
MaxThreads == 2
MaxDim == 4

\* ------------------------------------------------------- program constants
DefaultQuality == 85
UnitBase == 1024

SUPPORTED_INPUT_EXT == {".jpeg", ".jpg", ".png", ".webp", ".avif"}
TARGET_FORMATS == {"original", "jpg", "png", "webp", "avif"}
Units == <<"B", "KB", "MB", "GB">>

\* ------------------------------------------------------------ small helpers
Abs(n) == IF n < 0 THEN -n ELSE n
Max2(a, b) == IF a >= b THEN a ELSE b

\* str.lower() on the extensions and the separator the model uses
Lower(s) ==
  CASE s = ".JPG" -> ".jpg"
    [] s = ".PNG" -> ".png"
    [] s = "X" -> "x"
    [] OTHER -> s

\* Python truthiness of an Optional[int]: None and 0 are both falsy
Truthy(o) == o # <<>> /\ o[1] # 0

\* `o or dflt` for an Optional[int] o
OrElse(o, dflt) == IF Truthy(o) THEN o[1] ELSE dflt

EmptyPath == [dir |-> "", stem |-> "", ext |-> ""]
Join(folder, filename) == [dir |-> folder, stem |-> filename.stem, ext |-> filename.ext]
\* os.path.splitext(p)[0] + e
WithExt(p, e) == [dir |-> p.dir, stem |-> p.stem, ext |-> e]

RECURSIVE SumOver(_, _)
SumOver(rows, field) ==
  IF rows = <<>> THEN 0 ELSE Head(rows)[field] + SumOver(Tail(rows), field)

\* -------------------------------------------------------------- sizeof_fmt
RECURSIVE FloorLog(_)
FloorLog(n) == IF n < UnitBase THEN 0 ELSE 1 + FloorLog(n \div UnitBase)

RECURSIVE Pow(_, _)
Pow(b, e) == IF e = 0 THEN 1 ELSE b * Pow(b, e - 1)

\* math.log raises ValueError on a negative number; units[i] raises IndexError
\* from 1024^4 on.  The text is kept as <<hundredths of the scaled value, unit>>
\* (round() is taken half-up here; the float tie rule is not modelled).
sizeof_fmt(num_bytes) ==
  IF num_bytes = 0 THEN [raised |-> FALSE, text |-> <<0, "B">>]
  ELSE IF num_bytes < 0 THEN [raised |-> TRUE, text |-> <<0, "ValueError">>]
  ELSE LET i == FloorLog(num_bytes)
           p == Pow(UnitBase, i)
       IN IF i + 1 > Len(Units) THEN [raised |-> TRUE, text |-> <<0, "IndexError">>]
          ELSE [raised |-> FALSE,
                text |-> <<(2 * 100 * num_bytes + p) \div (2 * p), Units[i + 1]>>]

\* ------------------------------------------------------------ parse_resize
Digits == {"0", "1", "2", "3", "4", "5", "6", "7", "8", "9"}
DigitVal(d) ==
  CASE d = "0" -> 0 [] d = "1" -> 1 [] d = "2" -> 2 [] d = "3" -> 3 [] d = "4" -> 4
    [] d = "5" -> 5 [] d = "6" -> 6 [] d = "7" -> 7 [] d = "8" -> 8 [] d = "9" -> 9

\* A --resize argument is a sequence of one-character strings over the digits
\* and x, X.  The signs, blanks and underscores that int() also accepts are
\* outside this alphabet, so every parsed bound is a natural number.
HasX(s) == \E k \in 1..Len(s) : Lower(s[k]) = "x"
FirstX(s) == CHOOSE k \in 1..Len(s) :
               Lower(s[k]) = "x" /\ \A j \in 1..(k - 1) : Lower(s[j]) # "x"

RECURSIVE IntOf(_)
\* int(t) for a non-empty string of decimal digits
IntOf(t) ==
  IF Len(t) = 1 THEN DigitVal(t[1])
  ELSE 10 * IntOf(SubSeq(t, 1, Len(t) - 1)) + DigitVal(t[Len(t)])

AllDigits(t) == \A k \in 1..Len(t) : t[k] \in Digits

\* [raised, w, h]: raised is "" for a normal return, else the exception type
parse_resize(s) ==
  IF s = <<>> THEN [raised |-> "", w |-> <<>>, h |-> <<>>]
  ELSE IF ~HasX(s) THEN [raised |-> "ArgumentTypeError", w |-> <<>>, h |-> <<>>]
  ELSE LET k == FirstX(s)
           w == SubSeq(s, 1, k - 1)
           h == SubSeq(s, k + 1, Len(s))
       IN IF ~AllDigits(w) \/ ~AllDigits(h)
          THEN [raised |-> "ValueError", w |-> <<>>, h |-> <<>>]
          ELSE [raised |-> "",
                w |-> IF w = <<>> THEN <<>> ELSE <<IntOf(w)>>,
                h |-> IF h = <<>> THEN <<>> ELSE <<IntOf(h)>>]

\* ------------------------------------------------------------------- state
VARIABLES
  argv,           \* parsed command line: [resize, preserve_metadata, target_format, threads, quality]
  AVIF_ENABLED,   \* module-level flag set by the optional import (lines 13-17)
  listing,        \* the input folder: its entries (file records) in os.listdir order
  outFs,          \* the output folder: path -> size of the file stored there
  mainPc,         \* where main is
  files,          \* main's `files`
  max_w, max_h,   \* main's `max_w`, `max_h` (Optional[int])
  fut,            \* the futures, by position in `files`: the state of each process_one call
  saved,          \* per future, the img.save call it made: <<>> or <<call>>
  results,        \* main's `results`
  reports,        \* the report artefacts written so far
  summary         \* the summary logged by main: <<>> or <<record>>

vars == <<argv, AVIF_ENABLED, listing, outFs, mainPc, files, max_w, max_h,
          fut, saved, results, reports, summary>>

OUTPUT == "output"

\* ------------------------------------------------------------ the codec side
\* The format Pillow derives from the file extension when save() gets format=None.
ExtFormat(ext) ==
  CASE ext \in {".jpg", ".jpeg"} -> "JPEG"
    [] ext = ".png" -> "PNG"
    [] ext = ".webp" -> "WEBP"
    [] ext = ".avif" -> "AVIF"

\* Image.open: the decoded image of a directory entry
OpenImage(f) ==
  [size |-> f.size, mode |-> f.mode, rotated |-> f.rotated, exif |-> f.exif, enc |-> f.enc]

\* ImageOps.exif_transpose: an orientation that swaps the axes is applied and
\* the orientation tag is cleared
exif_transpose(im) ==
  IF im.rotated
  THEN [im EXCEPT !.size = <<im.size[2], im.size[1]>>, !.rotated = FALSE]
  ELSE im

\* round_aspect of Image.thumbnail for the recomputed width: floor or ceil of
\* y * W / H, whichever keeps W/H closer (floor on a tie), at least 1
RoundWidth(W, H, y) ==
  LET lo == (y * W) \div H
      hi == IF lo * H = y * W THEN lo ELSE lo + 1
      pick == IF Abs(W * y - lo * H) <= Abs(W * y - hi * H) THEN lo ELSE hi
  IN Max2(pick, 1)

\* round_aspect for the recomputed height: floor or ceil of x * H / W; the key
\* of 0 is 0, so 0 wins and is then raised to 1
RoundHeight(W, H, x) ==
  LET lo == (x * H) \div W
      hi == IF lo * W = x * H THEN lo ELSE lo + 1
      pick == IF lo = 0 THEN lo
              ELSE IF Abs(W * lo - x * H) * hi <= Abs(W * hi - x * H) * lo THEN lo ELSE hi
  IN Max2(pick, 1)

\* a resize to the box itself, as Image.resize would do
Thumbnail_Stretch(size, box) == box

\* Image.thumbnail(box) on an image of size <<W, H>>, for a box of positive sides
Thumbnail(size, box) ==
  LET W == size[1]
      H == size[2]
      x == box[1]
      y == box[2]
  IN IF x >= W /\ y >= H THEN size
     ELSE IF x * H >= W * y THEN <<RoundWidth(W, H, y), y>>
     ELSE <<x, RoundHeight(W, H, x)>>

\* lines 109-111 of process_one
Resized(im, mw, mh) ==
  IF Truthy(mw) \/ Truthy(mh)
  THEN LET t == exif_transpose(im)
       IN [t EXCEPT !.size = Thumbnail(t.size, <<OrElse(mw, t.size[1]), OrElse(mh, t.size[2])>>)]
  ELSE im

NoKwargs == [k \in {} |-> 0]
LossyExt == {".jpg", ".jpeg", ".webp", ".avif"}
LossyFmt == {"JPEG", "WEBP", "AVIF"}

AvifMissing == "error: AVIF output requested, but pillow-avif-plugin is not installed."
ExifTooLong == "error: EXIF data is too long"
CannotIdentify == "error: cannot identify image file"
ErrorStatuses == {AvifMissing, ExifTooLong, CannotIdentify}

\* lines 64-77: the forced format ("None" when none is forced)
ForcedFormat(target_fmt) ==
  CASE target_fmt = "jpg" -> "JPEG"
    [] target_fmt = "png" -> "PNG"
    [] target_fmt = "webp" -> "WEBP"
    [] target_fmt = "avif" -> "AVIF"
    [] OTHER -> "None"

\* the extension is replaced only when the source has none of its own
SavePath_KeepsExt(out_path, target_fmt) ==
  IF target_fmt \in {"jpg", "png", "webp", "avif"} /\ out_path.ext = ""
  THEN WithExt(out_path, "." \o target_fmt)
  ELSE out_path

\* lines 64-77: the path the image is written to
SavePath(out_path, target_fmt) ==
  IF target_fmt \in {"jpg", "png", "webp", "avif"}
  THEN WithExt(out_path, "." \o target_fmt)
  ELSE out_path

\* lines 83-86
BaseKwargs(fmt, ext, quality) ==
  IF fmt \in LossyFmt \/ (fmt = "None" /\ ext \in LossyExt)
  THEN [quality |-> quality, optimize |-> TRUE]
  ELSE NoKwargs

\* lines 88-94: getexif() may raise (swallowed); an empty Exif is falsy
ExifKwargs(img, preserve_metadata) ==
  IF preserve_metadata /\ img.exif \in {"good", "too_long"}
  THEN [exif |-> img.exif]
  ELSE NoKwargs

\* line 96, img.save: the JPEG writer rejects an EXIF block that does not fit
\* one marker segment; otherwise the file is written.
EncoderRaises(call) ==
  /\ "exif" \in DOMAIN call.kwargs
  /\ call.kwargs.exif = "too_long"
  /\ call.written_as = "JPEG"

\* save_image: [raised, out_path, call]; call is the img.save invocation
save_image(img, out_path, target_fmt, quality, preserve_metadata) ==
  LET ext == Lower(out_path.ext)
      fmt == ForcedFormat(target_fmt)
      path == SavePath(out_path, target_fmt)
      needs_rgb == fmt \in LossyFmt \/ (fmt = "None" /\ ext \in LossyExt)
      mode == IF needs_rgb /\ img.mode \notin {"RGB", "L"} THEN "RGB" ELSE img.mode
      kwargs == BaseKwargs(fmt, ext, quality) @@ ExifKwargs(img, preserve_metadata)
      call == [path |-> path, format |-> fmt, kwargs |-> kwargs, size |-> img.size,
               mode |-> mode,
               written_as |-> IF fmt = "None" THEN ExtFormat(Lower(path.ext)) ELSE fmt,
               bytes |-> img.enc[IF fmt = "None" THEN ExtFormat(Lower(path.ext)) ELSE fmt]]
  IN IF target_fmt = "avif" /\ ~AVIF_ENABLED
     THEN [raised |-> AvifMissing, out_path |-> EmptyPath, call |-> <<>>]
     ELSE IF EncoderRaises(call)
     THEN [raised |-> ExifTooLong, out_path |-> EmptyPath, call |-> <<call>>]
     ELSE [raised |-> "", out_path |-> path, call |-> <<call>>]

\* ------------------------------------------------------------- process_one
Zero == <<0, 1>>

\* an error result that reports nothing written
ErrorResult_ZeroSize(filename, msg, original_size) ==
  [filename |-> filename, status |-> msg, original_bytes |-> original_size,
   optimized_bytes |-> 0, reduction_pct |-> Zero, output_path |-> EmptyPath]

\* lines 116-117
ErrorResult(filename, msg, original_size) ==
  [filename |-> filename, status |-> msg, original_bytes |-> original_size,
   optimized_bytes |-> original_size, reduction_pct |-> Zero, output_path |-> EmptyPath]

\* line 119
Reduction(original_size, optimized_size) ==
  IF original_size # 0
  THEN <<(original_size - optimized_size) * 100, original_size>>
  ELSE Zero

\* lines 121-122
OkResult(filename, original_size, optimized_size, saved_path) ==
  [filename |-> filename, status |-> "ok", original_bytes |-> original_size,
   optimized_bytes |-> optimized_size,
   reduction_pct |-> Reduction(original_size, optimized_size),
   output_path |-> saved_path]

\* ----------------------------------------------------------- analyze_folder
Range(q) == {q[k] : k \in 1..Len(q)}
NameOf(f) == [stem |-> f.stem, ext |-> f.ext]

RECURSIVE Eligible(_)
\* lines 44-46: the listed entries that are files with a supported extension
Eligible(entries) ==
  IF entries = <<>> THEN <<>>
  ELSE LET f == Head(entries)
       IN (IF f.isfile /\ Lower(f.ext) \in SUPPORTED_INPUT_EXT THEN <<NameOf(f)>> ELSE <<>>)
          \o Eligible(Tail(entries))

\* the directory entry a file name denotes
Entry(filename) == CHOOSE f \in Range(listing) : NameOf(f) = filename

\* ------------------------------------------------------------------- main
NewFuture ==
  [st |-> "pending", original_size |-> 0, saved_path |-> EmptyPath,
   result |-> <<>>, collected |-> FALSE]

Futures == DOMAIN fut
Active == {i \in Futures : fut[i].st \in {"running", "saved"}}
Finished == {i \in Futures : fut[i].st \in {"returned", "raised"}}

\* lines 207-216: parse the arguments, list the folder, parse --resize
Setup ==
  /\ mainPc = "start"
  /\ LET r == parse_resize(argv.resize)
     IN /\ files' = Eligible(listing)
        /\ IF r.raised # ""
           THEN /\ mainPc' = "config_error"
                /\ UNCHANGED <<max_w, max_h>>
           ELSE /\ mainPc' = "submit"
                /\ max_w' = r.w
                /\ max_h' = r.h
  /\ results' = <<>>
  /\ UNCHANGED <<argv, AVIF_ENABLED, listing, outFs, fut, saved, reports, summary>>

\* lines 218-221: one future per file
Submit ==
  /\ mainPc = "submit"
  /\ fut' = [i \in 1..Len(files) |-> NewFuture]
  /\ saved' = [i \in 1..Len(files) |-> <<>>]
  /\ mainPc' = "collect"
  /\ UNCHANGED <<argv, AVIF_ENABLED, listing, outFs, files, max_w, max_h,
                 results, reports, summary>>

\* A pool thread takes the oldest queued call and runs lines 103-105.  The
\* source may be gone by now: os.path.getsize then raises, outside the try.
Begin(i) ==
  /\ mainPc \in {"collect", "aborting"}
  /\ fut[i].st = "pending"
  /\ \A j \in Futures : j < i => fut[j].st # "pending"
  /\ Cardinality(Active) < argv.threads
  /\ \E vanished \in BOOLEAN :
       fut' = [fut EXCEPT ![i] =
                 IF vanished THEN [@ EXCEPT !.st = "raised"]
                 ELSE [@ EXCEPT !.st = "running", !.original_size = Entry(files[i]).bytes]]
  /\ UNCHANGED <<argv, AVIF_ENABLED, listing, outFs, mainPc, files, max_w, max_h,
                 saved, results, reports, summary>>

\* lines 107-112 and, when they raise, lines 114-117
Encode(i) ==
  /\ mainPc \in {"collect", "aborting"}
  /\ fut[i].st = "running"
  /\ LET f == Entry(files[i])
         dst_path == Join(OUTPUT, files[i])
         im == Resized(OpenImage(f), max_w, max_h)
         r == save_image(im, dst_path, argv.target_format, argv.quality,
                         argv.preserve_metadata)
     IN IF f.corrupt
        THEN /\ fut' = [fut EXCEPT ![i].st = "returned",
                          ![i].result = <<ErrorResult(files[i], CannotIdentify,
                                                      fut[i].original_size)>>]
             /\ UNCHANGED <<outFs, saved>>
        ELSE IF r.raised # ""
        THEN /\ fut' = [fut EXCEPT ![i].st = "returned",
                          ![i].result = <<ErrorResult(files[i], r.raised,
                                                      fut[i].original_size)>>]
             /\ saved' = [saved EXCEPT ![i] = r.call]
             /\ UNCHANGED outFs
        ELSE /\ fut' = [fut EXCEPT ![i].st = "saved", ![i].saved_path = r.out_path]
             /\ saved' = [saved EXCEPT ![i] = r.call]
             /\ outFs' = (r.out_path :> r.call[1].bytes) @@ outFs
  /\ UNCHANGED <<argv, AVIF_ENABLED, listing, mainPc, files, max_w, max_h,
                 results, reports, summary>>

\* lines 113 and 119-122; the log line 120 formats both sizes outside the try
Measure(i) ==
  /\ mainPc \in {"collect", "aborting"}
  /\ fut[i].st = "saved"
  /\ LET optimized_size == outFs[fut[i].saved_path]
         original_size == fut[i].original_size
     IN fut' = [fut EXCEPT ![i] =
                  IF sizeof_fmt(original_size).raised \/ sizeof_fmt(optimized_size).raised
                  THEN [@ EXCEPT !.st = "raised"]
                  ELSE [@ EXCEPT !.st = "returned",
                                 !.result = <<OkResult(files[i], original_size,
                                                       optimized_size, fut[i].saved_path)>>]]
  /\ UNCHANGED <<argv, AVIF_ENABLED, listing, outFs, mainPc, files, max_w, max_h,
                 saved, results, reports, summary>>

\* lines 222-223: as_completed hands over a finished future; result() returns
\* the dict or re-raises what process_one raised
Collect(i) ==
  /\ mainPc = "collect"
  /\ i \in Finished
  /\ ~fut[i].collected
  /\ fut' = [fut EXCEPT ![i].collected = TRUE]
  /\ IF fut[i].st = "raised"
     THEN /\ mainPc' = "aborting"
          /\ UNCHANGED results
     ELSE /\ mainPc' = "collect"
          /\ results' = Append(results, fut[i].result[1])
  /\ UNCHANGED <<argv, AVIF_ENABLED, listing, outFs, files, max_w, max_h,
                 saved, reports, summary>>

\* the with block ends normally: every future has been collected
PoolExit ==
  /\ mainPc = "collect"
  /\ \A i \in Futures : fut[i].collected
  /\ mainPc' = "plot"
  /\ UNCHANGED <<argv, AVIF_ENABLED, listing, outFs, files, max_w, max_h,
                 fut, saved, results, reports, summary>>

\* the with block is left by the exception: shutdown(wait=True) lets every
\* submitted call run to its end, then the exception leaves main
PoolAbort ==
  /\ mainPc = "aborting"
  /\ Finished = Futures
  /\ mainPc' = "batch_error"
  /\ UNCHANGED <<argv, AVIF_ENABLED, listing, outFs, files, max_w, max_h,
                 fut, saved, results, reports, summary>>

CsvName == "report.csv"
HtmlName == "report.html"
BarName == "charts/per_file_savings.png"
PieName == "charts/total_pie.png"

\* line 227, plot_and_save
PlotAndSave ==
  /\ mainPc = "plot"
  /\ reports' = reports \cup {BarName, PieName}
  /\ mainPc' = "csv"
  /\ UNCHANGED <<argv, AVIF_ENABLED, listing, outFs, files, max_w, max_h,
                 fut, saved, results, summary>>

\* line 229, write_csv
WriteCsv ==
  /\ mainPc = "csv"
  /\ reports' = reports \cup {CsvName}
  /\ mainPc' = "html"
  /\ UNCHANGED <<argv, AVIF_ENABLED, listing, outFs, files, max_w, max_h,
                 fut, saved, results, summary>>

Saved(rows) == SumOver(rows, "original_bytes") - SumOver(rows, "optimized_bytes")

\* the sizeof_fmt calls write_html makes (lines 171-172, 184)
HtmlRaises(rows) ==
  \/ sizeof_fmt(Saved(rows)).raised
  \/ \E k \in 1..Len(rows) :
       sizeof_fmt(rows[k].original_bytes).raised \/ sizeof_fmt(rows[k].optimized_bytes).raised

\* line 230, write_html
WriteHtml ==
  /\ mainPc = "html"
  /\ IF HtmlRaises(results)
     THEN /\ mainPc' = "report_error"
          /\ UNCHANGED reports
     ELSE /\ mainPc' = "summary"
          /\ reports' = reports \cup {HtmlName}
  /\ UNCHANGED <<argv, AVIF_ENABLED, listing, outFs, files, max_w, max_h,
                 fut, saved, results, summary>>

\* lines 232-242
LogSummary ==
  /\ mainPc = "summary"
  /\ LET total_original == SumOver(results, "original_bytes")
         total_optimized == SumOver(results, "optimized_bytes")
         saved_bytes == total_original - total_optimized
         pct == IF total_original # 0 THEN <<saved_bytes * 100, total_original>> ELSE Zero
     IN IF \/ sizeof_fmt(total_original).raised
           \/ sizeof_fmt(total_optimized).raised
           \/ sizeof_fmt(saved_bytes).raised
        THEN /\ mainPc' = "report_error"
             /\ UNCHANGED summary
        ELSE /\ mainPc' = "done"
             /\ summary' = <<[original |-> sizeof_fmt(total_original).text,
                              optimized |-> sizeof_fmt(total_optimized).text,
                              saved |-> sizeof_fmt(saved_bytes).text,
                              pct |-> pct,
                              csv |-> Join(OUTPUT, [stem |-> "report", ext |-> ".csv"]),
                              html |-> Join(OUTPUT, [stem |-> "report", ext |-> ".html"])]>>
  /\ UNCHANGED <<argv, AVIF_ENABLED, listing, outFs, files, max_w, max_h,
                 fut, saved, results, reports>>

Next ==
  \/ Setup
  \/ Submit
  \/ \E i \in Futures : Begin(i)
  \/ \E i \in Futures : Encode(i)
  \/ \E i \in Futures : Measure(i)
  \/ \E i \in Futures : Collect(i)
  \/ PoolExit
  \/ PoolAbort
  \/ PlotAndSave
  \/ WriteCsv
  \/ WriteHtml
  \/ LogSummary

\* ------------------------------------------------------------------ inputs
\* Encoded sizes by output format: what the codec yields for one image.
Shrinks == [JPEG |-> 1500, PNG |-> 1900, WEBP |-> 1200, AVIF |-> 1000]
Grows == [JPEG |-> 3000, PNG |-> 900, WEBP |-> 800, AVIF |-> 700]

Image(stem, ext, bytes, size, rotated, mode, exif, enc) ==
  [stem |-> stem, ext |-> ext, isfile |-> TRUE, bytes |-> bytes, corrupt |-> FALSE,
   size |-> size, rotated |-> rotated, mode |-> mode, exif |-> exif, enc |-> enc]

\* an entry that is not a decodable image: a truncated file, a text file, a folder
Other(stem, ext, isfile, bytes) ==
  [stem |-> stem, ext |-> ext, isfile |-> isfile, bytes |-> bytes, corrupt |-> TRUE,
   size |-> <<1, 1>>, rotated |-> FALSE, mode |-> "RGB", exif |-> "none", enc |-> Shrinks]

BatchImages ==
  { Image("a", ".jpg", 2048, <<4, 2>>, FALSE, "RGB", "good", Shrinks),
    Image("a", ".png", 1000, <<2, 2>>, FALSE, "RGBA", "none", Grows),
    Other("b", ".PNG", TRUE, 300),
    Other("e", ".webp", TRUE, 0) }

BatchOthers == <<Other("notes", ".txt", TRUE, 12), Other("thumbs", ".png", FALSE, 0)>>

\* every order of a set of entries
Orders(S) ==
  {q \in [1..Cardinality(S) -> S] : \A a, b \in 1..Cardinality(S) : a # b => q[a] # q[b]}

Args(resize, preserve, target, threads) ==
  [resize |-> resize, preserve_metadata |-> preserve, target_format |-> target,
   threads |-> threads, quality |-> DefaultQuality]

\* the state main starts from, for a folder listed as `entries`
Start(entries, args, avif) ==
  /\ argv = args
  /\ AVIF_ENABLED = avif
  /\ listing = entries
  /\ outFs = [q \in {} |-> 0]
  /\ mainPc = "start"
  /\ files = <<>>
  /\ max_w = <<>>
  /\ max_h = <<>>
  /\ fut = <<>>
  /\ saved = <<>>
  /\ results = <<>>
  /\ reports = {}
  /\ summary = <<>>

BatchResizes == {<<>>, <<"2", "x">>}

\* a batch: up to MaxFiles images of the folder, in any listing order
Init ==
  \E S \in SUBSET BatchImages, avif \in BOOLEAN, preserve \in BOOLEAN,
     target \in TARGET_FORMATS, threads \in 1..MaxThreads, resize \in BatchResizes :
    /\ Cardinality(S) <= MaxFiles
    /\ \E q \in Orders(S) : Start(BatchOthers \o q, Args(resize, preserve, target, threads), avif)

Spec == Init /\ [][Next]_vars

\* One file through save_image, over every target format, source extension,
\* colour mode, EXIF state and both values of the two flags.
SaveExts == {".jpg", ".JPG", ".jpeg", ".png", ".webp"}
SaveModes == {"RGB", "RGBA"}
ExifStates == {"none", "good", "unreadable", "too_long"}

InitSave ==
  \E ext \in SaveExts, mode \in SaveModes, exif \in ExifStates, good \in BOOLEAN,
     avif \in BOOLEAN, preserve \in BOOLEAN, target \in TARGET_FORMATS :
    \* a JPEG source holds its EXIF in one marker segment: it always fits
    /\ exif = "too_long" => ExtFormat(Lower(ext)) # "JPEG"
    /\ Start(<<IF good THEN Image("p", ext, 2048, <<4, 2>>, FALSE, mode, exif, Shrinks)
               ELSE Other("p", ext, TRUE, 7)>>,
             Args(<<>>, preserve, target, 1), avif)

SpecSave == InitSave /\ [][Next]_vars

\* One file through the resize step, over the texts of --resize and the sizes
\* and orientations of the source.
RECURSIVE Decimal(_)
\* the decimal text of a natural number
Decimal(n) ==
  LET d == CHOOSE c \in Digits : DigitVal(c) = n % 10
  IN IF n < 10 THEN <<d>> ELSE Append(Decimal(n \div 10), d)

ExampleSize == <<1000, 2000>>
ExampleBound == <<100>>
Sides == {<<>>} \cup {Decimal(n) : n \in 0..(MaxDim + 1)} \cup {Decimal(ExampleBound[1]), Decimal(ExampleSize[1])}
ResizeTexts ==
  {w \o <<x>> \o h : w \in Sides, h \in Sides, x \in {"x"}}
    \cup {<<>>, <<"1", "2">>, <<"2", "X", "3">>, <<"1", "x", "2", "x", "3">>}
SourceSizes == ((1..MaxDim) \X (1..MaxDim)) \cup {ExampleSize}

InitResize ==
  \E text \in ResizeTexts, size \in SourceSizes, rotated \in BOOLEAN :
    Start(<<Image("p", ".png", 2048, size, rotated, "RGB", "none", Shrinks)>>,
          Args(text, FALSE, "original", 1), TRUE)

SpecResize == InitResize /\ [][Next]_vars

\* ============================================================== properties
IsOk(r) == r.status = "ok"
IsError(r) == r.status \in ErrorStatuses
Rows(name) == {k \in 1..Len(results) : results[k].filename = name}
\* main has left the collection loop normally
CollectionDone == mainPc \in {"plot", "csv", "html", "summary", "done", "report_error"}
\* the futures whose process_one call returned a dict
Returned == {i \in Futures : fut[i].st = "returned"}
\* the futures whose img.save call wrote a file
Wrote == {i \in Futures : fut[i].saved_path # EmptyPath}
AvifUnavailable == argv.target_format = "avif" /\ ~AVIF_ENABLED

\* C1: the run always gets to the end of result collection (it is never thrown
\* out of the collection loop), and there the results hold exactly one entry
\* per input file name.
C1_Completeness ==
  /\ mainPc \notin {"aborting", "batch_error"}
  /\ CollectionDone =>
       /\ Len(results) = Len(files)
       /\ \A k \in 1..Len(files) : Cardinality(Rows(files[k])) = 1

\* C2: no failure of one file leaves process_one as an exception or stops the
\* batch; after collection every file that could not be decoded has an error
\* row and every other row of a decodable file is there too.
C2_FailureAbsorbed ==
  /\ \A i \in Futures : fut[i].st # "raised"
  /\ mainPc \notin {"aborting", "batch_error"}
  /\ CollectionDone =>
       /\ \A k \in 1..Len(results) : IsOk(results[k]) \/ IsError(results[k])
       /\ \A k \in 1..Len(files) :
            Entry(files[k]).corrupt => \E j \in Rows(files[k]) : IsError(results[j])
       /\ \A k \in 1..Len(files) :
            (~Entry(files[k]).corrupt /\ ~AvifUnavailable /\ ~argv.preserve_metadata)
              => \E j \in Rows(files[k]) : IsOk(results[j])

\* C3: with target format avif and no AVIF support the run is stopped as a
\* configuration error before any worker starts on a file: no future leaves
\* the queue, no error row is produced, no report is written and the run does
\* not end normally.
C3_AvifIsConfigError ==
  AvifUnavailable =>
    /\ \A i \in Futures : fut[i].st = "pending"
    /\ \A k \in 1..Len(results) : ~IsError(results[k])
    /\ reports = {}
    /\ mainPc # "done"

\* C4: two different work units never write the same destination path, and the
\* optimized_bytes of an ok result is the size of the file its own worker wrote.
C4_NoWriteCollision ==
  /\ \A i, j \in Wrote : i # j => fut[i].saved_path # fut[j].saved_path
  /\ \A i \in Returned :
       IsOk(fut[i].result[1]) => fut[i].result[1].optimized_bytes = saved[i][1].bytes

AllReports == {BarName, PieName, CsvName, HtmlName}

\* C5: once the results are collected the run writes the charts, the CSV and
\* the HTML and logs the summary: the report tail never fails, and a finished
\* run has all four artefacts and a summary.
C5_SummaryFollows ==
  /\ mainPc # "report_error"
  /\ mainPc = "done" => reports = AllReports /\ summary # <<>>

\* C6: the output_path of an ok result is the path img.save wrote, in the
\* output folder, with the source's base name; a forced format gives exactly
\* that format's extension, and "original" gives the source name unchanged and
\* forces no format.
C6_OutputName ==
  \A i \in Returned :
    LET r == fut[i].result[1]
    IN IsOk(r) =>
         /\ saved[i] # <<>>
         /\ r.output_path = saved[i][1].path
         /\ r.output_path \in DOMAIN outFs
         /\ r.output_path.dir = OUTPUT
         /\ r.output_path.stem = files[i].stem
         /\ argv.target_format \in {"jpg", "png", "webp", "avif"} =>
              /\ r.output_path.ext = "." \o argv.target_format
              /\ r.output_path.ext \in {".jpg", ".png", ".webp", ".avif"}
         /\ argv.target_format = "original" =>
              /\ r.output_path = Join(OUTPUT, files[i])
              /\ saved[i][1].format = "None"

\* an ok result in a forced format whose source had another extension, and one
\* with the format kept
C6_Witness ==
  \E i \in Returned :
    /\ IsOk(fut[i].result[1])
    /\ argv.target_format = "webp"
    /\ files[i].ext = ".JPG"
    /\ fut[i].result[1].output_path.ext = ".webp"

RECURSIVE OkSaving(_)
\* the bytes saved by the ok rows alone
OkSaving(rows) ==
  IF rows = <<>> THEN 0
  ELSE (IF IsOk(Head(rows)) THEN Head(rows).original_bytes - Head(rows).optimized_bytes ELSE 0)
       + OkSaving(Tail(rows))

\* C7: every error row carries the source size as original_bytes and as
\* optimized_bytes, a reduction of 0.0 and an empty output_path; every ok row
\* has an output_path and a reduction of (original - optimized) / original *
\* 100 (0.0 for an empty original); so the totals count a failed file as
\* unchanged.
C7_ResultShape ==
  /\ \A k \in 1..Len(results) :
       LET r == results[k]
       IN /\ IsOk(r) \/ IsError(r)
          /\ IsError(r) =>
               /\ r.original_bytes = Entry(r.filename).bytes
               /\ r.optimized_bytes = r.original_bytes
               /\ r.reduction_pct[1] = 0
               /\ r.output_path = EmptyPath
          /\ IsOk(r) =>
               /\ r.output_path # EmptyPath
               /\ r.reduction_pct[2] > 0
               /\ r.original_bytes # 0 =>
                    r.reduction_pct[1] * r.original_bytes
                      = (r.original_bytes - r.optimized_bytes) * 100 * r.reduction_pct[2]
               /\ r.original_bytes = 0 => r.reduction_pct[1] = 0
  /\ Saved(results) = OkSaving(results)

\* the results hold an ok row that shrank and an error row of a non-empty file
C7_Witness ==
  /\ \E k \in 1..Len(results) :
       IsOk(results[k]) /\ results[k].optimized_bytes < results[k].original_bytes
  /\ \E k \in 1..Len(results) : IsError(results[k]) /\ results[k].original_bytes > 0

\* the size of the source as it is viewed: with the orientation applied when
\* the resize step runs
Upright(f) ==
  IF (Truthy(max_w) \/ Truthy(max_h)) /\ f.rotated THEN <<f.size[2], f.size[1]>> ELSE f.size

\* the aspect ratio of `out` is that of `src` up to one pixel on one side
SameAspect(out, src) ==
  Abs(out[1] * src[2] - out[2] * src[1]) < Max2(src[1], src[2])

C9_EncoderOptions ==
  \A i \in Futures :
    saved[i] # <<>> =>
      LET c == saved[i][1]
      IN /\ ("quality" \in DOMAIN c.kwargs) <=> (c.written_as \in LossyFmt)
         /\ "quality" \in DOMAIN c.kwargs => c.kwargs.quality = argv.quality
         /\ "optimize" \in DOMAIN c.kwargs
         /\ c.kwargs.optimize = TRUE

\* C10: with preserve_metadata, EXIF that cannot be read or cannot be written
\* never makes the file an error row (the image is still encoded and reported
\* ok); without preserve_metadata img.save gets no exif argument.
C10_MetadataBestEffort ==
  /\ \A i \in Returned :
       (/\ argv.preserve_metadata
        /\ ~Entry(files[i]).corrupt
        /\ ~AvifUnavailable
        /\ Entry(files[i]).exif \in {"unreadable", "too_long"})
         => IsOk(fut[i].result[1])
  /\ \A i \in Futures :
       (saved[i] # <<>> /\ ~argv.preserve_metadata) => "exif" \notin DOMAIN saved[i][1].kwargs

====
